---- MODULE Spec2Model ----
(***************************************************************************)
(* Model of the conformance-testing core of langchain-integration-health:  *)
(* the BaseIntegrationTester pipeline (run_all_tests), the three concrete  *)
(* strategies (LLMIntegrationTester, ChatModelTester, EmbeddingsTester)    *)
(* and the compatibility score.                                            *)
(*                                                                         *)
(* One tester instance drives one component under test.  The component is  *)
(* an input: which attributes its type exposes, what each call does and    *)
(* on which construction attempts the constructor raises.  It is chosen in *)
(* Init; the one thing about it that changes is a lookup that works at     *)
(* first and starts to raise between two runs.                             *)
(* Faults raised by a component are Python Exception instances with a      *)
(* printable message.                                                      *)
(*                                                                         *)
(* Scores are kept in thousandths (0.7 is 700, 0.05 is 50).                *)
(***************************************************************************)
EXTENDS Integers, Sequences, FiniteSets, TLC

VARIABLES
    comp,          \* the component under test (integration_class and its behaviour)
    results,       \* self.results, the IntegrationTestResult of the tester
    pc,            \* position of the run_all_tests coroutine
    exc,           \* the fault propagating out of a phase ("" if none)
    escapes,       \* faults that left a phase during the current run
    phases,        \* phases started by the current run, in order
    probes,        \* probes attempted by the current run, in order
    functionality_results,   \* mapping returned by _test_method_functionality
    error_handling_results,  \* mapping returned by _test_error_handling
    method_results,          \* mapping returned by _test_required_methods
    ctor_calls,    \* constructor invocations made by the current run
    consumed,      \* chunks pulled from the stream by the last streaming probe
    run_start,     \* the record as it was when the current run started
    returned,      \* the record as each finished run handed it to its caller
    clock,         \* wall clock (datetime.now())
    parked         \* the other task of the event loop, suspended (NoTask if none)

vars == <<comp, results, pc, exc, escapes, phases, probes, functionality_results,
          error_handling_results, method_results, ctor_calls, consumed,
          run_start, returned, clock, parked>>

----------------------------------------------------------------------------
(* Bounds *)

MaxRuns == 2        \* run_all_tests calls made on the one tester instance
MaxErrors == 5      \* error counts fed to the scoring function on its own
MaxWarnings == 10   \* warning counts fed to the scoring function on its own
CallTicks == 1      \* clock ticks one timed component call takes

Unbounded == 0 - 1  \* length of a stream that never ends

Min(a, b) == IF a < b THEN a ELSE b
Max(a, b) == IF a > b THEN a ELSE b

Range(s) == {s[i] : i \in 1..Len(s)}

----------------------------------------------------------------------------
(* Strategies and their class-level method lists *)

Strategies == {"llm", "chat", "embeddings"}

LLM_REQUIRED_METHODS ==
    <<"invoke", "ainvoke", "stream", "astream", "bind_tools", "with_structured_output">>
LLM_OPTIONAL_METHODS == <<"batch", "abatch", "bind", "with_config">>

CHAT_REQUIRED_METHODS ==
    <<"invoke", "ainvoke", "stream", "astream", "bind_tools", "with_structured_output">>
CHAT_OPTIONAL_METHODS ==
    <<"batch", "abatch", "bind", "with_config", "get_num_tokens", "get_token_ids">>

EMB_REQUIRED_METHODS == <<"embed_documents", "embed_query">>
EMB_OPTIONAL_METHODS == <<"aembed_documents", "aembed_query">>

REQUIRED_METHODS(s) ==
    CASE s = "llm" -> LLM_REQUIRED_METHODS
      [] s = "chat" -> CHAT_REQUIRED_METHODS
      [] s = "embeddings" -> EMB_REQUIRED_METHODS

OPTIONAL_METHODS(s) ==
    CASE s = "llm" -> LLM_OPTIONAL_METHODS
      [] s = "chat" -> CHAT_OPTIONAL_METHODS
      [] s = "embeddings" -> EMB_OPTIONAL_METHODS

MethodNames(s) == Range(REQUIRED_METHODS(s)) \cup Range(OPTIONAL_METHODS(s))

----------------------------------------------------------------------------
(* The Result Record *)

MetricKeys == {"invoke_latency", "ainvoke_latency", "streaming_latency",
               "chunks_received", "documents_embedded", "embedding_dimension"}

NoMetric == 0 - 1   \* the key is not in performance_metrics

\* One appended message: its fixed text, the method it is about ("" if none),
\* the cause it quotes (str(e), "" if none) and the lengths it lists.
Entry(msg, method, cause) ==
    [msg |-> msg, method |-> method, cause |-> cause, dims |-> <<>>]

IntegrationTestResult(now) ==
    [test_timestamp |-> now,
     bind_tools_support |-> FALSE,
     streaming_support |-> FALSE,
     structured_output_support |-> FALSE,
     async_support |-> FALSE,
     errors |-> <<>>,
     warnings |-> <<>>,
     performance_metrics |-> [k \in MetricKeys |-> NoMetric],
     compatibility_score |-> 0]

\* The errors list replaced by a list of the new entry alone.
AddError_Overwrite(r, msg, method, cause) ==
    [r EXCEPT !.errors = <<Entry(msg, method, cause)>>]

AddError(r, msg, method, cause) ==
    [r EXCEPT !.errors = Append(@, Entry(msg, method, cause))]

AddWarning(r, msg, method, cause) ==
    [r EXCEPT !.warnings = Append(@, Entry(msg, method, cause))]

SetMetric(r, key, value) ==
    [r EXCEPT !.performance_metrics[key] = value]

Flags(r) == <<r.bind_tools_support, r.streaming_support,
              r.structured_output_support, r.async_support>>

----------------------------------------------------------------------------
(* The component under test.                                               *)
(*   strategy  the tester class that probes it                             *)
(*   ctor      the construction attempts of a run (1, 2, 3) that raise     *)
(*   attr      what looking a method name up on the type (or on an         *)
(*             instance) gives: a callable, nothing, a value that is not   *)
(*             callable, or a fault raised by the lookup itself; "flaky"   *)
(*             is a callable whose lookup raises once the component broke  *)
(*   beh       what each call site gets when the method is callable        *)
(*   stream    what instance.stream(...) hands to the async for loop       *)
(*   dims      what embed_query gives for each query it is asked           *)

Statuses == {"callable", "absent", "noncallable", "raises", "flaky"}

Outcomes == {"ok", "falsy", "raise"}

Attempts == {1, 2, 3}

CtorPatterns == SUBSET Attempts

StreamLens == {0, 1, 10, 11, 1000, Unbounded}

\* len chunks, then the iterator stops or raises; aiter is FALSE for a plain
\* (synchronous) generator, which async for cannot iterate.
StreamBehaviours ==
    {[len |-> n, end |-> e, aiter |-> TRUE] :
        n \in StreamLens \ {Unbounded}, e \in {"stop", "raise"}}
    \cup {[len |-> Unbounded, end |-> "stop", aiter |-> TRUE],
          [len |-> 3, end |-> "stop", aiter |-> FALSE]}

DefaultStream(b) ==
    CASE b = "ok" -> [len |-> 3, end |-> "stop", aiter |-> TRUE]
      [] b = "falsy" -> [len |-> 0, end |-> "stop", aiter |-> TRUE]
      [] b = "raise" -> [len |-> 0, end |-> "raise", aiter |-> TRUE]

\* What embed_query returns: a list of that many numbers (0: an empty list),
\* a value that is no list, or a fault.
NotAList == 0 - 2
QueryRaises == 0 - 3

\* The queries embed_query is given: the single-query probe (0) and the three
\* dimension-consistency queries (1, 2, 3).
Queries == 0..3

DefaultDims(b) ==
    CASE b = "ok" -> [q \in Queries |-> 2]
      [] b = "falsy" -> [q \in Queries |-> 0]
      [] b = "raise" -> [q \in Queries |-> QueryRaises]

DimProfiles ==
    {[q \in Queries |-> IF q = d THEN v ELSE 2] :
        d \in Queries, v \in {0, 2, 3, NotAList, QueryRaises}}
    \cup {[q \in Queries |-> v] : v \in {0, NotAList, QueryRaises}}

LLMSites == {"invoke", "ainvoke", "bind_tools", "bound_invoke",
             "with_structured_output", "structured_invoke"}

ChatSites == {"message_handling", "system_message", "conversation"}

EmbSites == {"embed_documents", "aembed_query", "aembed_documents"}

Sites(s) ==
    CASE s = "llm" -> LLMSites
      [] s = "chat" -> ChatSites
      [] s = "embeddings" -> EmbSites

\* "odd": a value that is truthy and yet not what the probe looks for (a chat
\* response with no content attribute, a structured response of another type,
\* document embeddings of the wrong count or with an empty vector among them).
\* "unreadable": a response that raises when the probe examines it (its truth
\* test or its str() raises, as the truth test of an array does).
SiteOutcomes(c) ==
    CASE c \in {"message_handling", "structured_invoke", "embed_documents"} ->
            Outcomes \cup {"odd"}
      [] c \in {"invoke", "ainvoke"} -> Outcomes \cup {"unreadable"}
      [] OTHER -> Outcomes

\* Every method there or every method missing; or all the same but one.
AttrProfiles(s) ==
    {[m \in MethodNames(s) |-> IF m = d THEN st ELSE base] :
        d \in MethodNames(s), st \in Statuses, base \in {"callable", "absent"}}

AllCallable(s) == [m \in MethodNames(s) |-> "callable"]

\* callable(getattr(obj, name))
callable(c, name) == c.attr[name] \in {"callable", "flaky"}

\* Every call site the same outcome; or all the same but one.
BehBase(s, b) == [c \in Sites(s) |-> b]

BehProfiles(s) ==
    UNION {{[c \in Sites(s) |-> IF c = d THEN o ELSE b] : o \in SiteOutcomes(d)} :
              <<d, b>> \in Sites(s) \X Outcomes}

Component(s, k, a, b, st, dm) ==
    [strategy |-> s, ctor |-> k, attr |-> a, beh |-> b, stream |-> st, dims |-> dm]

\* The components a tester is constructed with.  An attribute profile meets
\* the uniform behaviours; a behaviour profile, a stream or a dimension
\* profile meets the type that has every method.
ComponentsOf(s) ==
    {Component(s, k, a, BehBase(s, b), DefaultStream(b), DefaultDims(b)) :
        <<k, a, b>> \in CtorPatterns \X AttrProfiles(s) \X Outcomes}
    \cup
    {Component(s, k, AllCallable(s), bp, DefaultStream("ok"), DefaultDims("ok")) :
        <<k, bp>> \in CtorPatterns \X BehProfiles(s)}
    \cup
    (IF s = "llm"
     THEN {Component(s, k, AllCallable(s), BehBase(s, b), st, DefaultDims(b)) :
              <<k, b, st>> \in CtorPatterns \X Outcomes \X StreamBehaviours}
     ELSE {})
    \cup
    (IF s = "embeddings"
     THEN {Component(s, k, AllCallable(s), BehBase(s, b), DefaultStream(b), dm) :
              <<k, b, dm>> \in CtorPatterns \X Outcomes \X DimProfiles}
     ELSE {})

Components == UNION {ComponentsOf(s) : s \in Strategies}

\* A component that behaves the same on every construction attempt.
Deterministic(c) ==
    /\ c.ctor \in {{}, Attempts}
    /\ \A m \in DOMAIN c.attr : c.attr[m] # "flaky"

----------------------------------------------------------------------------
(* Python's attribute lookup and call on the component *)

Normal(v) == [raised |-> FALSE, value |-> v, cause |-> ""]
Raised(cause) == [raised |-> TRUE, value |-> "", cause |-> cause]

\* hasattr(obj, name): only AttributeError means "no such attribute"; any
\* other fault raised by the lookup propagates.
hasattr(c, name) ==
    CASE c.attr[name] = "absent" -> Normal("False")
      [] c.attr[name] = "raises" -> Raised("lookup fault")
      [] OTHER -> Normal("True")

\* instance.name(...) at call site `site`.
call(c, name, site) ==
    CASE c.attr[name] = "absent" -> Raised("AttributeError")
      [] c.attr[name] = "raises" -> Raised("lookup fault")
      [] c.attr[name] = "noncallable" -> Raised("TypeError")
      [] OTHER -> IF c.beh[site] = "raise"
                  THEN Raised("fault")
                  ELSE Normal(c.beh[site])

\* self.integration_class called with the configuration, the n-th construction of the run.
construct(c, n) == n \notin c.ctor

----------------------------------------------------------------------------
(* Mappings a phase returns (Python dicts) *)

EmptyMap == [k \in {} |-> FALSE]

Put(f, k, v) == [x \in DOMAIN f \cup {k} |-> IF x = k THEN v ELSE f[x]]

Result(r, ret) == [r |-> r, ret |-> ret]

----------------------------------------------------------------------------
(* BaseIntegrationTester *)

\* A failed construction is reported, but nothing is appended for it.
test_instantiation_Silent(c, r, n) ==
    Result(r, construct(c, n))

\* _test_instantiation, the n-th construction of the run
test_instantiation(c, r, n) ==
    IF construct(c, n)
    THEN Result(r, TRUE)
    ELSE Result(AddError(r, "Instantiation failed", "", "fault"), FALSE)

\* The loop of _test_required_methods from the i-th name on: the record, the
\* mapping so far, and whether a lookup raised (the fault leaves the method).
RECURSIVE required_loop(_, _, _, _)
required_loop(c, r, map, i) ==
    LET names == REQUIRED_METHODS(c.strategy)
        name == names[i]
        has == hasattr(c, name)
    IN  IF i > Len(names)
        THEN [r |-> r, map |-> map, raised |-> FALSE]
        ELSE IF has.raised
        THEN [r |-> r, map |-> map, raised |-> TRUE]
        ELSE IF has.value = "False"
        THEN required_loop(c, AddError(r, "Missing required method", name, ""),
                           Put(map, name, FALSE), i + 1)
        ELSE IF c.attr[name] = "noncallable"
        THEN required_loop(c, AddError(r, "Method is not callable", name, ""),
                           Put(map, name, FALSE), i + 1)
        ELSE required_loop(c, r, Put(map, name, TRUE), i + 1)

\* The check with no message left for a failing name.
test_required_methods_Silent(c, r) ==
    [required_loop(c, r, EmptyMap, 1) EXCEPT !.r = r]

\* The check with the mapping left at has_method for a name that is there
\* and not callable.
test_required_methods_HasOnly(c, r) ==
    LET out == required_loop(c, r, EmptyMap, 1)
    IN  [out EXCEPT !.map = [m \in DOMAIN out.map |-> c.attr[m] # "absent"]]

test_required_methods(c, r) == required_loop(c, r, EmptyMap, 1)

TotalFeatures == 4

CountTrue(flags) == Cardinality({i \in 1..Len(flags) : flags[i]})

\* The score without its floor at zero.
calculate_compatibility_score_NoFloor(r) ==
    [r EXCEPT !.compatibility_score =
        (CountTrue(Flags(r)) * 700) \div TotalFeatures
        - Min(Len(r.errors) * 100, 300) - Min(Len(r.warnings) * 50, 200)]

\* The score with penalties that grow without a cap.
calculate_compatibility_score_NoCap(r) ==
    [r EXCEPT !.compatibility_score =
        Max(0, (CountTrue(Flags(r)) * 700) \div TotalFeatures
               - Len(r.errors) * 100 - Len(r.warnings) * 50)]

\* _calculate_compatibility_score, in thousandths
calculate_compatibility_score(r) ==
    LET supported_features == CountTrue(Flags(r))
        feature_score == (supported_features * 700) \div TotalFeatures
        error_penalty == Min(Len(r.errors) * 100, 300)
        warning_penalty == Min(Len(r.warnings) * 50, 200)
    IN  [r EXCEPT !.compatibility_score =
            Max(0, feature_score - error_penalty - warning_penalty)]

----------------------------------------------------------------------------
(* LLMIntegrationTester *)

\* The probe with the latency stored only once the response has passed.
test_invoke_TimedOnPass(c, r) ==
    LET response == call(c, "invoke", "invoke")
    IN  IF response.raised \/ response.value = "unreadable"
        THEN Result(AddError(r, "Invoke test failed", "invoke", "fault"), FALSE)
        ELSE IF response.value = "ok"
        THEN Result(SetMetric(r, "invoke_latency", CallTicks), TRUE)
        ELSE Result(AddWarning(r, "Invoke returned empty or invalid response",
                               "invoke", ""), FALSE)

test_invoke(c, r) ==
    LET response == call(c, "invoke", "invoke")
        timed == SetMetric(r, "invoke_latency", CallTicks)
    IN  IF response.raised
        THEN Result(AddError(r, "Invoke test failed", "invoke", response.cause), FALSE)
        ELSE IF response.value = "ok"
        THEN Result(timed, TRUE)
        ELSE IF response.value = "unreadable"
        THEN Result(AddError(timed, "Invoke test failed", "invoke", "fault"), FALSE)
        ELSE Result(AddWarning(timed, "Invoke returned empty or invalid response",
                               "invoke", ""), FALSE)

test_ainvoke(c, r) ==
    LET has == hasattr(c, "ainvoke")
        response == call(c, "ainvoke", "ainvoke")
        timed == [SetMetric(r, "ainvoke_latency", CallTicks) EXCEPT !.async_support = TRUE]
    IN  IF has.raised
        THEN Result(AddError(r, "Async invoke test failed", "ainvoke", has.cause), FALSE)
        ELSE IF has.value = "False"
        THEN Result(AddWarning(r, "ainvoke method not available", "ainvoke", ""), FALSE)
        ELSE IF response.raised
        THEN Result(AddError(r, "Async invoke test failed", "ainvoke", response.cause),
                    FALSE)
        ELSE IF response.value = "ok"
        THEN Result(timed, TRUE)
        ELSE IF response.value = "unreadable"
        THEN Result(AddError(timed, "Async invoke test failed", "ainvoke", "fault"), FALSE)
        ELSE Result(AddWarning(timed, "Async invoke returned empty or invalid response",
                               "ainvoke", ""), FALSE)

ChunkLimit == 10

\* The async for loop of _test_streaming_support with n chunks appended so
\* far: how many chunks end up in the list, and whether the stream raised.
RECURSIVE stream_loop(_, _)
stream_loop(st, n) ==
    IF st.len = Unbounded \/ n < st.len
    THEN IF n + 1 > ChunkLimit
         THEN [chunks |-> n + 1, raised |-> FALSE]
         ELSE stream_loop(st, n + 1)
    ELSE [chunks |-> n, raised |-> st.end = "raise"]

\* What the streaming probe pulls from the component: nothing when it never
\* gets to iterate.
stream_pull(c) ==
    IF callable(c, "stream") /\ c.stream.aiter
    THEN stream_loop(c.stream, 0)
    ELSE [chunks |-> 0, raised |-> TRUE]

\* The probe counting the chunks it got before the stream raised.
test_streaming_support_CountsPartial(c, r) ==
    LET has == hasattr(c, "stream")
        got == stream_pull(c)
    IN  IF has.raised
        THEN Result(AddError(r, "Streaming test failed", "stream", has.cause), FALSE)
        ELSE IF has.value = "False"
        THEN Result(AddWarning(r, "stream method not available", "stream", ""), FALSE)
        ELSE IF got.chunks > 0
        THEN Result(SetMetric(SetMetric([r EXCEPT !.streaming_support = TRUE],
                                        "streaming_latency", CallTicks),
                              "chunks_received", got.chunks), TRUE)
        ELSE IF got.raised
        THEN Result(AddError(r, "Streaming test failed", "stream", "fault"), FALSE)
        ELSE Result(AddWarning(r, "Streaming produced no chunks", "stream", ""), FALSE)

test_streaming_support(c, r) ==
    LET has == hasattr(c, "stream")
        got == stream_pull(c)
        cause == CASE c.attr["stream"] = "noncallable" -> "TypeError"
                   [] ~c.stream.aiter -> "TypeError"
                   [] OTHER -> "fault"
    IN  IF has.raised
        THEN Result(AddError(r, "Streaming test failed", "stream", has.cause), FALSE)
        ELSE IF has.value = "False"
        THEN Result(AddWarning(r, "stream method not available", "stream", ""), FALSE)
        ELSE IF got.raised
        THEN Result(AddError(r, "Streaming test failed", "stream", cause), FALSE)
        ELSE IF got.chunks > 0
        THEN Result(SetMetric(SetMetric([r EXCEPT !.streaming_support = TRUE],
                                        "streaming_latency", CallTicks),
                              "chunks_received", got.chunks), TRUE)
        ELSE Result(AddWarning(r, "Streaming produced no chunks", "stream", ""), FALSE)

\* The probe taking a bound model that raises when invoked for a failure of
\* the binding.
test_bind_tools_support_NoDowngrade(c, r) ==
    LET has == hasattr(c, "bind_tools")
        bound_model == call(c, "bind_tools", "bind_tools")
        bound == [r EXCEPT !.bind_tools_support = TRUE]
    IN  IF has.raised
        THEN Result(AddError(r, "bind_tools test failed", "bind_tools", has.cause), FALSE)
        ELSE IF has.value = "False"
        THEN Result(AddError(r, "bind_tools method not available", "bind_tools", ""),
                    FALSE)
        ELSE IF bound_model.raised \/ c.beh["bound_invoke"] = "raise"
        THEN Result(AddError(r, "bind_tools test failed", "bind_tools", "fault"), FALSE)
        ELSE IF bound_model.value # "ok"
        THEN Result(r, FALSE)
        ELSE Result(bound, c.beh["bound_invoke"] = "ok")

test_bind_tools_support(c, r) ==
    LET has == hasattr(c, "bind_tools")
        bound_model == call(c, "bind_tools", "bind_tools")
        bound == [r EXCEPT !.bind_tools_support = TRUE]
    IN  IF has.raised
        THEN Result(AddError(r, "bind_tools test failed", "bind_tools", has.cause), FALSE)
        ELSE IF has.value = "False"
        THEN Result(AddError(r, "bind_tools method not available", "bind_tools", ""),
                    FALSE)
        ELSE IF bound_model.raised
        THEN Result(AddError(r, "bind_tools test failed", "bind_tools",
                             bound_model.cause), FALSE)
        ELSE IF bound_model.value # "ok"
        THEN Result(r, FALSE)
        ELSE CASE c.beh["bound_invoke"] = "raise" ->
                    Result(AddWarning(bound, "Tool binding works but execution failed",
                                      "bind_tools", "fault"), TRUE)
               [] c.beh["bound_invoke"] = "ok" -> Result(bound, TRUE)
               [] OTHER -> Result(bound, FALSE)

\* The probe recording a missing with_structured_output as an error.
test_structured_output_AbsenceIsError(c, r) ==
    LET has == hasattr(c, "with_structured_output")
        structured_model == call(c, "with_structured_output", "with_structured_output")
        bound == [r EXCEPT !.structured_output_support = TRUE]
    IN  IF has.raised
        THEN Result(AddError(r, "Structured output test failed",
                             "with_structured_output", has.cause), FALSE)
        ELSE IF has.value = "False"
        THEN Result(AddError(r, "with_structured_output method not available",
                             "with_structured_output", ""), FALSE)
        ELSE IF structured_model.raised
        THEN Result(AddError(r, "Structured output test failed",
                             "with_structured_output", structured_model.cause), FALSE)
        ELSE IF structured_model.value # "ok"
        THEN Result(r, FALSE)
        ELSE CASE c.beh["structured_invoke"] = "raise" ->
                    Result(AddWarning(bound,
                               "Structured output binding works but execution failed",
                               "with_structured_output", "fault"), TRUE)
               [] c.beh["structured_invoke"] = "ok" -> Result(bound, TRUE)
               [] OTHER -> Result(bound, FALSE)

\* The probe gives up and clears the flags the run has set so far.
test_structured_output_Clears(c, r) ==
    Result([r EXCEPT !.bind_tools_support = FALSE, !.streaming_support = FALSE,
                     !.structured_output_support = FALSE, !.async_support = FALSE],
           FALSE)

test_structured_output(c, r) ==
    LET has == hasattr(c, "with_structured_output")
        structured_model == call(c, "with_structured_output", "with_structured_output")
        bound == [r EXCEPT !.structured_output_support = TRUE]
    IN  IF has.raised
        THEN Result(AddError(r, "Structured output test failed",
                             "with_structured_output", has.cause), FALSE)
        ELSE IF has.value = "False"
        THEN Result(AddWarning(r, "with_structured_output method not available",
                               "with_structured_output", ""), FALSE)
        ELSE IF structured_model.raised
        THEN Result(AddError(r, "Structured output test failed",
                             "with_structured_output", structured_model.cause), FALSE)
        ELSE IF structured_model.value # "ok"
        THEN Result(r, FALSE)
        ELSE CASE c.beh["structured_invoke"] = "raise" ->
                    Result(AddWarning(bound,
                               "Structured output binding works but execution failed",
                               "with_structured_output", "fault"), TRUE)
               [] c.beh["structured_invoke"] = "ok" -> Result(bound, TRUE)
               [] OTHER -> Result(bound, FALSE)

\* One error scenario: TRUE when the call did not raise.  handled is what the
\* component does with the bad input when the method can be called at all.
scenario(c, name, handled) == callable(c, name) /\ handled

\* The scenarios with the first one that raises ending the method.
llm_error_scenarios_StopsOnRaise(c, handled) ==
    LET one == Put(EmptyMap, "handles_empty_input", scenario(c, "invoke", handled[1]))
        two == Put(one, "handles_long_input", scenario(c, "invoke", handled[2]))
    IN  IF ~scenario(c, "invoke", handled[1])
        THEN one
        ELSE IF ~scenario(c, "invoke", handled[2]) \/ c.attr["bind_tools"] = "absent"
        THEN two
        ELSE Put(two, "handles_empty_tools", scenario(c, "bind_tools", handled[3]))

\* LLMIntegrationTester._test_specific_error_scenarios; handled[i] is what the
\* component does with the i-th bad input.
llm_error_scenarios(c, handled) ==
    LET two == Put(Put(EmptyMap, "handles_empty_input", scenario(c, "invoke", handled[1])),
                   "handles_long_input", scenario(c, "invoke", handled[2]))
    IN  IF c.attr["bind_tools"] = "absent"
        THEN two
        ELSE Put(two, "handles_empty_tools", scenario(c, "bind_tools", handled[3]))

----------------------------------------------------------------------------
(* ChatModelTester *)

test_message_handling(c, r) ==
    LET response == call(c, "invoke", "message_handling")
    IN  IF response.raised
        THEN Result(AddError(r, "Message handling test failed", "invoke",
                             response.cause), FALSE)
        ELSE IF response.value = "ok"
        THEN Result(r, TRUE)
        ELSE Result(AddWarning(r, "Message handling returned invalid response format",
                               "invoke", ""), FALSE)

test_system_message_support(c, r) ==
    LET response == call(c, "invoke", "system_message")
    IN  IF response.raised
        THEN Result(AddWarning(r, "System message support test failed", "invoke",
                               response.cause), FALSE)
        ELSE IF response.value = "ok"
        THEN Result(r, TRUE)
        ELSE Result(AddWarning(r, "System message support test returned no response",
                               "invoke", ""), FALSE)

test_conversation_handling(c, r) ==
    LET response == call(c, "invoke", "conversation")
    IN  IF response.raised
        THEN Result(AddWarning(r, "Conversation handling test failed", "invoke",
                               response.cause), FALSE)
        ELSE IF response.value = "ok"
        THEN Result(r, TRUE)
        ELSE Result(AddWarning(r, "Conversation handling test returned no response",
                               "invoke", ""), FALSE)

\* super()._test_method_functionality() of ChatModelTester: the abstract
\* method of BaseIntegrationTester, whose body is pass.
base_test_method_functionality(c, r) == [r |-> r, ret |-> "None"]

\* functionality_results.update(base_results)
chat_base_tests(c, r) ==
    LET base_results == base_test_method_functionality(c, r)
    IN  IF base_results.ret = "None"
        THEN Result(AddError(base_results.r, "Chat model functionality testing failed",
                             "", "TypeError"), FALSE)
        ELSE Result(base_results.r, TRUE)

chat_error_scenarios(c, handled) ==
    Put(Put(Put(EmptyMap,
        "handles_invalid_message_format", scenario(c, "invoke", handled[1])),
        "handles_empty_messages", scenario(c, "invoke", handled[2])),
        "handles_malformed_messages", scenario(c, "invoke", handled[3]))

----------------------------------------------------------------------------
(* EmbeddingsTester *)

TestDocuments == 3

test_embed_documents(c, r) ==
    LET embeddings == call(c, "embed_documents", "embed_documents")
    IN  IF embeddings.raised
        THEN Result(AddError(r, "embed_documents test failed", "embed_documents",
                             embeddings.cause), FALSE)
        ELSE CASE embeddings.value = "ok" ->
                    Result(SetMetric(r, "documents_embedded", TestDocuments), TRUE)
               [] embeddings.value = "odd" ->
                    Result(AddError(r, "embed_documents returned invalid embedding format",
                                    "embed_documents", ""), FALSE)
               [] OTHER ->
                    Result(AddError(r, "embed_documents returned wrong number of embeddings",
                                    "embed_documents", ""), FALSE)

\* instance.embed_query(query q): a length, NotAList, or a fault
embed_query(c, q) ==
    CASE c.attr["embed_query"] = "absent" -> Raised("AttributeError")
      [] c.attr["embed_query"] = "raises" -> Raised("lookup fault")
      [] c.attr["embed_query"] = "noncallable" -> Raised("TypeError")
      [] c.dims[q] = QueryRaises -> Raised("fault")
      [] OTHER -> [raised |-> FALSE, value |-> c.dims[q], cause |-> ""]

test_embed_query(c, r) ==
    LET embedding == embed_query(c, 0)
    IN  IF embedding.raised
        THEN Result(AddError(r, "embed_query test failed", "embed_query",
                             embedding.cause), FALSE)
        ELSE IF embedding.value > 0
        THEN Result(SetMetric(r, "embedding_dimension", embedding.value), TRUE)
        ELSE Result(AddError(r, "embed_query returned invalid embedding",
                             "embed_query", ""), FALSE)

test_async_embeddings(c, r) ==
    LET hasq == hasattr(c, "aembed_query")
        embedding == call(c, "aembed_query", "aembed_query")
        hasd == hasattr(c, "aembed_documents")
        embeddings == call(c, "aembed_documents", "aembed_documents")
        supported == Result([r EXCEPT !.async_support = TRUE], TRUE)
        failed(cause) == Result(AddWarning(r, "Async embeddings test failed", "", cause),
                                FALSE)
        documents ==
            IF hasd.raised
            THEN failed(hasd.cause)
            ELSE IF hasd.value = "True" /\ embeddings.raised
            THEN failed(embeddings.cause)
            ELSE IF hasd.value = "True" /\ embeddings.value = "ok"
            THEN supported
            ELSE Result(AddWarning(r, "No async embedding methods available", "", ""),
                        FALSE)
    IN  IF hasq.raised
        THEN failed(hasq.cause)
        ELSE IF hasq.value = "True" /\ embedding.raised
        THEN failed(embedding.cause)
        ELSE IF hasq.value = "True" /\ embedding.value = "ok"
        THEN supported
        ELSE documents

\* The loop of _test_dimension_consistency from query q on: the lengths
\* appended to dimensions, or the fault of the first query that raised.
RECURSIVE dimension_loop(_, _, _)
dimension_loop(c, q, dimensions) ==
    LET embedding == embed_query(c, q)
    IN  IF q > 3
        THEN [raised |-> FALSE, dimensions |-> dimensions, cause |-> ""]
        ELSE IF embedding.raised
        THEN [raised |-> TRUE, dimensions |-> dimensions, cause |-> embedding.cause]
        ELSE IF embedding.value > 0
        THEN dimension_loop(c, q + 1, Append(dimensions, embedding.value))
        ELSE dimension_loop(c, q + 1, dimensions)

test_dimension_consistency(c, r) ==
    LET got == dimension_loop(c, 1, <<>>)
    IN  IF got.raised
        THEN Result(AddWarning(r, "Dimension consistency test failed", "embed_query",
                               got.cause), FALSE)
        ELSE IF got.dimensions # <<>> /\ Cardinality(Range(got.dimensions)) = 1
        THEN Result(r, TRUE)
        ELSE Result([r EXCEPT !.errors = Append(@,
                         [Entry("Inconsistent embedding dimensions", "embed_query", "")
                             EXCEPT !.dims = got.dimensions])], FALSE)

emb_error_scenarios(c, handled) ==
    Put(Put(Put(EmptyMap,
        "handles_empty_documents", scenario(c, "embed_documents", handled[1])),
        "handles_empty_query", scenario(c, "embed_query", handled[2])),
        "handles_large_input", scenario(c, "embed_query", handled[3]))

----------------------------------------------------------------------------
(* Dispatch on the tester class *)

\* The probes of _test_method_functionality, in the order it attempts them.
ProbeOrder(s) ==
    CASE s = "llm" ->
            <<"invoke", "ainvoke", "streaming", "bind_tools", "structured_output">>
      [] s = "chat" ->
            <<"message_handling", "system_message", "conversation", "base_tests">>
      [] s = "embeddings" ->
            <<"embed_documents", "embed_query", "async_embeddings",
              "dimension_consistency">>

\* The message of the except clause of _test_method_functionality.
FunctionalityFailed(s) ==
    CASE s = "llm" -> "Method functionality testing failed"
      [] s = "chat" -> "Chat model functionality testing failed"
      [] s = "embeddings" -> "Embeddings functionality testing failed"

test_specific_error_scenarios(c, handled) ==
    CASE c.strategy = "llm" -> llm_error_scenarios(c, handled)
      [] c.strategy = "chat" -> chat_error_scenarios(c, handled)
      [] c.strategy = "embeddings" -> emb_error_scenarios(c, handled)

\* The phase takes a component that survived the bad inputs to support
\* tool binding.
test_error_handling_SetsFlag(c, r, n, handled) ==
    IF construct(c, n)
    THEN [r |-> [r EXCEPT !.bind_tools_support = TRUE],
          ret |-> test_specific_error_scenarios(c, handled)]
    ELSE [r |-> AddWarning(r, "Error handling test failed", "", "fault"),
          ret |-> EmptyMap]

\* The phase records every scenario the component did not survive as an error.
test_error_handling_Records(c, r, n, handled) ==
    IF construct(c, n)
    THEN [r |-> IF \A i \in 1..3 : handled[i]
                THEN r
                ELSE AddError(r, "Error scenario failed", "", "fault"),
          ret |-> test_specific_error_scenarios(c, handled)]
    ELSE [r |-> AddWarning(r, "Error handling test failed", "", "fault"),
          ret |-> EmptyMap]

\* _test_error_handling, the n-th construction of the run
test_error_handling(c, r, n, handled) ==
    IF construct(c, n)
    THEN [r |-> r, ret |-> test_specific_error_scenarios(c, handled)]
    ELSE [r |-> AddWarning(r, "Error handling test failed", "", "fault"),
          ret |-> EmptyMap]

\* The probe of _test_method_functionality called `name`.
probe(c, name, r) ==
    CASE name = "invoke" -> test_invoke(c, r)
      [] name = "ainvoke" -> test_ainvoke(c, r)
      [] name = "streaming" -> test_streaming_support(c, r)
      [] name = "bind_tools" -> test_bind_tools_support(c, r)
      [] name = "structured_output" -> test_structured_output(c, r)
      [] name = "message_handling" -> test_message_handling(c, r)
      [] name = "system_message" -> test_system_message_support(c, r)
      [] name = "conversation" -> test_conversation_handling(c, r)
      [] name = "base_tests" -> chat_base_tests(c, r)
      [] name = "embed_documents" -> test_embed_documents(c, r)
      [] name = "embed_query" -> test_embed_query(c, r)
      [] name = "async_embeddings" -> test_async_embeddings(c, r)
      [] name = "dimension_consistency" -> test_dimension_consistency(c, r)

\* The probes of the phase from the i-th on, one after the other.
RECURSIVE run_probes(_, _, _)
run_probes(c, r, i) ==
    IF i > Len(ProbeOrder(c.strategy))
    THEN r
    ELSE run_probes(c, probe(c, ProbeOrder(c.strategy)[i], r).r, i + 1)

\* _test_method_functionality, the n-th construction of the run
test_method_functionality(c, r, n) ==
    IF construct(c, n)
    THEN run_probes(c, r, 1)
    ELSE AddError(r, FunctionalityFailed(c.strategy), "", "fault")

\* run_all_tests from start to end with nothing else running: the record it
\* returns when it starts from record r.  The record does not depend on how
\* the component takes the bad inputs of the error scenarios.
run_all_tests(c, r) ==
    LET instantiated == test_instantiation(c, r, 1).r
        checked == test_required_methods(c, instantiated)
        probed == test_method_functionality(c, checked.r, 2)
        handled == test_error_handling(c, probed, 3, [i \in 1..3 |-> TRUE]).r
    IN  IF checked.raised
        THEN AddError(checked.r, "Test execution failed", "", "lookup fault")
        ELSE calculate_compatibility_score(handled)

----------------------------------------------------------------------------
(* The tester as a state machine *)

PhaseOrder == <<"instantiation", "required_methods", "functionality",
                "error_handling", "score">>

\* No other task: the tester's run is the only coroutine of the event loop.
NoTask == [pc |-> "none"]

\* BaseIntegrationTester.__init__ has run: a fresh record, no run yet.
Init ==
    /\ comp \in Components
    /\ results = IntegrationTestResult(0)
    /\ pc = "idle"
    /\ exc = ""
    /\ escapes = 0
    /\ phases = <<>>
    /\ probes = <<>>
    /\ functionality_results = EmptyMap
    /\ error_handling_results = EmptyMap
    /\ method_results = EmptyMap
    /\ ctor_calls = 0
    /\ consumed = 0
    /\ run_start = IntegrationTestResult(0)
    /\ returned = <<>>
    /\ clock = 0
    /\ parked = NoTask

\* A caller awaits run_all_tests() on the tester.
RunAllTests ==
    /\ pc = "idle"
    /\ Len(returned) < MaxRuns
    /\ pc' = "instantiation"
    /\ phases' = <<>>
    /\ probes' = <<>>
    /\ functionality_results' = EmptyMap
    /\ error_handling_results' = EmptyMap
    /\ method_results' = EmptyMap
    /\ ctor_calls' = 0
    /\ consumed' = 0
    /\ run_start' = results
    /\ clock' = clock + 1
    /\ escapes' = 0
    /\ UNCHANGED <<comp, results, exc, returned, parked>>

\* A failed construction ends the run at once.
TestInstantiation_Abort ==
    /\ pc = "instantiation"
    /\ results' = test_instantiation(comp, results, ctor_calls + 1).r
    /\ ctor_calls' = ctor_calls + 1
    /\ phases' = Append(phases, "instantiation")
    /\ pc' = IF construct(comp, ctor_calls + 1) THEN "required_methods" ELSE "return"
    /\ UNCHANGED <<comp, exc, escapes, probes, functionality_results,
                   error_handling_results, method_results, consumed, run_start,
                   returned, clock, parked>>

TestInstantiation ==
    /\ pc = "instantiation"
    /\ results' = test_instantiation(comp, results, ctor_calls + 1).r
    /\ ctor_calls' = ctor_calls + 1
    /\ phases' = Append(phases, "instantiation")
    /\ pc' = "required_methods"
    /\ UNCHANGED <<comp, exc, escapes, probes, functionality_results, error_handling_results,
                   method_results, consumed, run_start, returned, clock, parked>>

TestRequiredMethods ==
    /\ pc = "required_methods"
    /\ LET out == test_required_methods(comp, results)
       IN  /\ results' = out.r
           /\ method_results' = out.map
           /\ exc' = IF out.raised THEN "lookup fault" ELSE ""
           /\ escapes' = IF out.raised THEN escapes + 1 ELSE escapes
           /\ pc' = IF out.raised THEN "except" ELSE "functionality"
    /\ phases' = Append(phases, "required_methods")
    /\ UNCHANGED <<comp, probes, functionality_results, error_handling_results,
                   ctor_calls, consumed, run_start, returned, clock, parked>>

\* The functionality phase reuses the outcome of the instantiation phase.
TestMethodFunctionality_SharesInstance ==
    /\ pc = "functionality"
    /\ IF construct(comp, 1)
       THEN /\ results' = results
            /\ pc' = ProbeOrder(comp.strategy)[1]
       ELSE /\ results' = AddError(results, FunctionalityFailed(comp.strategy), "", "fault")
            /\ pc' = "error_handling"
    /\ phases' = Append(phases, "functionality")
    /\ UNCHANGED <<comp, exc, escapes, probes, functionality_results, error_handling_results,
                   method_results, ctor_calls, consumed, run_start, returned, clock, parked>>

\* _test_method_functionality up to its first probe: the construction.
TestMethodFunctionality ==
    /\ pc = "functionality"
    /\ IF construct(comp, ctor_calls + 1)
       THEN /\ results' = results
            /\ pc' = ProbeOrder(comp.strategy)[1]
       ELSE /\ results' = AddError(results, FunctionalityFailed(comp.strategy), "", "fault")
            /\ pc' = "error_handling"
    /\ ctor_calls' = ctor_calls + 1
    /\ phases' = Append(phases, "functionality")
    /\ UNCHANGED <<comp, exc, escapes, probes, functionality_results, error_handling_results,
                   method_results, consumed, run_start, returned, clock, parked>>

\* The phase moves on after its first probe, the rest still to come.
AfterProbe_Early(s, name) == "error_handling"

\* Where the functionality phase goes after its i-th probe.
AfterProbe(s, name) ==
    LET order == ProbeOrder(s)
        i == CHOOSE j \in 1..Len(order) : order[j] = name
    IN  IF i < Len(order) THEN order[i + 1] ELSE "error_handling"

\* A probe that fails ends the functionality phase.
Probe_StopsOnFailure(name, out) ==
    /\ pc = name
    /\ results' = out.r
    /\ functionality_results' = Put(functionality_results, name, out.ret)
    /\ probes' = Append(probes, name)
    /\ pc' = IF out.ret THEN AfterProbe(comp.strategy, name) ELSE "error_handling"
    /\ UNCHANGED <<comp, exc, escapes, phases, error_handling_results, method_results,
                   ctor_calls, run_start, returned, clock, parked>>

\* One probe of the functionality phase and the entry it leaves in the mapping.
Probe(name, out) ==
    /\ pc = name
    /\ results' = out.r
    /\ functionality_results' = Put(functionality_results, name, out.ret)
    /\ probes' = Append(probes, name)
    /\ pc' = AfterProbe(comp.strategy, name)
    /\ UNCHANGED <<comp, exc, escapes, phases, error_handling_results, method_results,
                   ctor_calls, run_start, returned, clock, parked>>

TestInvoke == Probe("invoke", test_invoke(comp, results)) /\ UNCHANGED consumed

TestAinvoke == Probe("ainvoke", test_ainvoke(comp, results)) /\ UNCHANGED consumed

TestStreamingSupport ==
    /\ Probe("streaming", test_streaming_support(comp, results))
    /\ consumed' = stream_pull(comp).chunks

TestBindToolsSupport ==
    Probe("bind_tools", test_bind_tools_support(comp, results)) /\ UNCHANGED consumed

TestStructuredOutput ==
    Probe("structured_output", test_structured_output(comp, results))
    /\ UNCHANGED consumed

TestMessageHandling ==
    Probe("message_handling", test_message_handling(comp, results))
    /\ UNCHANGED consumed

TestSystemMessageSupport ==
    Probe("system_message", test_system_message_support(comp, results))
    /\ UNCHANGED consumed

TestConversationHandling ==
    Probe("conversation", test_conversation_handling(comp, results))
    /\ UNCHANGED consumed

\* The tail of ChatModelTester._test_method_functionality: the base tests and
\* the update of the mapping; a fault lands in the method's except clause.
ChatBaseTests ==
    /\ pc = "base_tests"
    /\ results' = chat_base_tests(comp, results).r
    /\ probes' = Append(probes, "base_tests")
    /\ pc' = "error_handling"
    /\ UNCHANGED <<comp, exc, escapes, phases, functionality_results, error_handling_results,
                   method_results, ctor_calls, consumed, run_start, returned, clock, parked>>

TestEmbedDocuments ==
    Probe("embed_documents", test_embed_documents(comp, results))
    /\ UNCHANGED consumed

TestEmbedQuery ==
    Probe("embed_query", test_embed_query(comp, results)) /\ UNCHANGED consumed

TestAsyncEmbeddings ==
    Probe("async_embeddings", test_async_embeddings(comp, results))
    /\ UNCHANGED consumed

TestDimensionConsistency ==
    Probe("dimension_consistency", test_dimension_consistency(comp, results))
    /\ UNCHANGED consumed

\* _test_error_handling; the component decides how it takes each bad input.
TestErrorHandling ==
    /\ pc = "error_handling"
    /\ \E handled \in [1..3 -> BOOLEAN] :
          LET out == test_error_handling(comp, results, ctor_calls + 1, handled)
          IN  /\ results' = out.r
              /\ error_handling_results' = out.ret
    /\ ctor_calls' = ctor_calls + 1
    /\ phases' = Append(phases, "error_handling")
    /\ pc' = "score"
    /\ UNCHANGED <<comp, exc, escapes, probes, functionality_results, method_results,
                   consumed, run_start, returned, clock, parked>>

\* The run reaches its end with the score left as it was.
CalculateCompatibilityScore_Stale ==
    /\ pc = "score"
    /\ error_handling_results' = EmptyMap
    /\ phases' = Append(phases, "score")
    /\ pc' = "return"
    /\ UNCHANGED <<comp, results, exc, escapes, probes, functionality_results,
                   method_results, ctor_calls, consumed, run_start, returned, clock, parked>>

\* run_all_tests drops the mapping of the error-handling phase and scores.
CalculateCompatibilityScore ==
    /\ pc = "score"
    /\ results' = calculate_compatibility_score(results)
    /\ error_handling_results' = EmptyMap
    /\ phases' = Append(phases, "score")
    /\ pc' = "return"
    /\ UNCHANGED <<comp, exc, escapes, probes, functionality_results, method_results,
                   ctor_calls, consumed, run_start, returned, clock, parked>>

\* The fault leaves run_all_tests and reaches its caller.
TopLevelExcept_Propagates ==
    /\ pc = "except"
    /\ pc' = "raised"
    /\ UNCHANGED <<comp, results, exc, escapes, phases, probes, functionality_results,
                   error_handling_results, method_results, ctor_calls, consumed,
                   run_start, returned, clock, parked>>

\* The handler records the fault and the run carries on with the next phase.
TopLevelExcept_Resume ==
    /\ pc = "except"
    /\ results' = AddError(results, "Test execution failed", "", exc)
    /\ exc' = ""
    /\ pc' = "functionality"
    /\ UNCHANGED <<comp, escapes, phases, probes, functionality_results,
                   error_handling_results, method_results, ctor_calls, consumed,
                   run_start, returned, clock, parked>>

\* except Exception as e, at the top of run_all_tests
TopLevelExcept ==
    /\ pc = "except"
    /\ results' = AddError(results, "Test execution failed", "", exc)
    /\ exc' = ""
    /\ pc' = "return"
    /\ UNCHANGED <<comp, escapes, phases, probes, functionality_results, error_handling_results,
                   method_results, ctor_calls, consumed, run_start, returned, clock, parked>>

\* return self.results
Return ==
    /\ pc = "return"
    /\ returned' = Append(returned, results)
    /\ pc' = "idle"
    /\ UNCHANGED <<comp, results, exc, escapes, phases, probes, functionality_results,
                   error_handling_results, method_results, ctor_calls, consumed,
                   run_start, clock, parked>>

\* Between two runs the component's environment fails: the lookups that
\* depended on it raise from now on.
LookupBreaks ==
    /\ pc = "idle"
    /\ returned # <<>>
    /\ \E m \in DOMAIN comp.attr : comp.attr[m] = "flaky"
    /\ comp' = [comp EXCEPT !.attr =
                    [m \in DOMAIN @ |-> IF @[m] = "flaky" THEN "raises" ELSE @[m]]]
    /\ UNCHANGED <<results, pc, exc, escapes, phases, probes, functionality_results,
                   error_handling_results, method_results, ctor_calls, consumed,
                   run_start, returned, clock, parked>>

\* One step of a run that has started.
RunStep ==
    \/ TestInstantiation
    \/ TestRequiredMethods
    \/ TestMethodFunctionality
    \/ TestInvoke
    \/ TestAinvoke
    \/ TestStreamingSupport
    \/ TestBindToolsSupport
    \/ TestStructuredOutput
    \/ TestMessageHandling
    \/ TestSystemMessageSupport
    \/ TestConversationHandling
    \/ ChatBaseTests
    \/ TestEmbedDocuments
    \/ TestEmbedQuery
    \/ TestAsyncEmbeddings
    \/ TestDimensionConsistency
    \/ TestErrorHandling
    \/ CalculateCompatibilityScore
    \/ TopLevelExcept
    \/ Return

Next ==
    \/ RunAllTests
    \/ RunStep
    \/ LookupBreaks

Spec == Init /\ [][Next]_vars

----------------------------------------------------------------------------
(* Two testers run at once: the command line creates one tester per        *)
(* integration class and, in parallel mode, one task per run_all_tests     *)
(* call.  The event loop runs one task at a time; `parked` is the task     *)
(* that is suspended, with its tester's whole state.                       *)

\* The running task with its tester, as the event loop suspends it.
Task(overlap) ==
    [comp |-> comp, results |-> results, pc |-> pc, exc |-> exc, escapes |-> escapes,
     phases |-> phases, probes |-> probes,
     functionality_results |-> functionality_results,
     error_handling_results |-> error_handling_results,
     method_results |-> method_results, ctor_calls |-> ctor_calls,
     consumed |-> consumed, run_start |-> run_start, returned |-> returned,
     overlap |-> overlap]

\* A task that has started and not yet returned.
MidRun(p) == p \notin {"instantiation", "idle"}

\* The task resumed finds in its errors list what the other tester put in
\* its own: the two records hold one list.
Switch_SharedErrors ==
    /\ parked # NoTask
    /\ parked' = Task(parked.overlap \/ (MidRun(pc) /\ MidRun(parked.pc)))
    /\ comp' = parked.comp
    /\ results' = [parked.results EXCEPT !.errors = results.errors]
    /\ pc' = parked.pc
    /\ exc' = parked.exc
    /\ escapes' = parked.escapes
    /\ phases' = parked.phases
    /\ probes' = parked.probes
    /\ functionality_results' = parked.functionality_results
    /\ error_handling_results' = parked.error_handling_results
    /\ method_results' = parked.method_results
    /\ ctor_calls' = parked.ctor_calls
    /\ consumed' = parked.consumed
    /\ run_start' = parked.run_start
    /\ returned' = parked.returned
    /\ UNCHANGED clock

\* The event loop suspends the running task and resumes the other one, which
\* goes on with its own tester and that tester's own record.
Switch ==
    /\ parked # NoTask
    /\ parked' = Task(parked.overlap \/ (MidRun(pc) /\ MidRun(parked.pc)))
    /\ comp' = parked.comp
    /\ results' = parked.results
    /\ pc' = parked.pc
    /\ exc' = parked.exc
    /\ escapes' = parked.escapes
    /\ phases' = parked.phases
    /\ probes' = parked.probes
    /\ functionality_results' = parked.functionality_results
    /\ error_handling_results' = parked.error_handling_results
    /\ method_results' = parked.method_results
    /\ ctor_calls' = parked.ctor_calls
    /\ consumed' = parked.consumed
    /\ run_start' = parked.run_start
    /\ returned' = parked.returned
    /\ UNCHANGED clock

\* A tester just constructed on component c at time now, its run_all_tests
\* task created and not yet started.
NewTask(c, now) ==
    [comp |-> c, results |-> IntegrationTestResult(now), pc |-> "instantiation",
     exc |-> "", escapes |-> 0, phases |-> <<>>, probes |-> <<>>,
     functionality_results |-> EmptyMap, error_handling_results |-> EmptyMap,
     method_results |-> EmptyMap, ctor_calls |-> 0, consumed |-> 0,
     run_start |-> IntegrationTestResult(now), returned |-> <<>>, overlap |-> FALSE]

\* The components the two testers of a parallel session are given: per
\* strategy one that passes everything, one whose every call raises, one that
\* cannot be constructed, one with no method at all and one whose lookup
\* raises.
PairComponents ==
    UNION {{Component(s, {}, AllCallable(s), BehBase(s, "ok"),
                      DefaultStream("ok"), DefaultDims("ok")),
            Component(s, {}, AllCallable(s), BehBase(s, "raise"),
                      DefaultStream("raise"), DefaultDims("raise")),
            Component(s, Attempts, AllCallable(s), BehBase(s, "ok"),
                      DefaultStream("ok"), DefaultDims("ok")),
            Component(s, {}, [m \in MethodNames(s) |-> "absent"], BehBase(s, "ok"),
                      DefaultStream("ok"), DefaultDims("ok")),
            Component(s, {}, [AllCallable(s) EXCEPT ![REQUIRED_METHODS(s)[2]] = "raises"],
                      BehBase(s, "ok"), DefaultStream("ok"), DefaultDims("ok"))} :
           s \in Strategies}

\* Two testers constructed one after the other, both tasks created.
InitPair ==
    \E c1 \in PairComponents, c2 \in PairComponents :
        /\ comp = c1
        /\ results = IntegrationTestResult(0)
        /\ pc = "instantiation"
        /\ exc = ""
        /\ escapes = 0
        /\ phases = <<>>
        /\ probes = <<>>
        /\ functionality_results = EmptyMap
        /\ error_handling_results = EmptyMap
        /\ method_results = EmptyMap
        /\ ctor_calls = 0
        /\ consumed = 0
        /\ run_start = IntegrationTestResult(0)
        /\ returned = <<>>
        /\ clock = 1
        /\ parked = NewTask(c2, 1)

NextPair ==
    \/ RunStep
    \/ Switch

SpecPair == InitPair /\ [][NextPair]_vars

----------------------------------------------------------------------------
(* The scoring function on its own: any flags, any number of errors and    *)
(* warnings, then _calculate_compatibility_score.                          *)

Filled(n) == [i \in 1..n |-> Entry("Invoke test failed", "invoke", "fault")]

ScoreInputs ==
    {[IntegrationTestResult(0) EXCEPT
         !.bind_tools_support = f[1], !.streaming_support = f[2],
         !.structured_output_support = f[3], !.async_support = f[4],
         !.errors = Filled(e), !.warnings = Filled(w)] :
        <<f, e, w>> \in [1..4 -> BOOLEAN] \X (0..MaxErrors) \X (0..MaxWarnings)}

InitScore ==
    /\ comp = Component("llm", {}, AllCallable("llm"), BehBase("llm", "ok"),
                        DefaultStream("ok"), DefaultDims("ok"))
    /\ results \in ScoreInputs
    /\ pc = "score"
    /\ exc = ""
    /\ escapes = 0
    /\ phases = <<>>
    /\ probes = <<>>
    /\ functionality_results = EmptyMap
    /\ error_handling_results = EmptyMap
    /\ method_results = EmptyMap
    /\ ctor_calls = 0
    /\ consumed = 0
    /\ run_start = results
    /\ returned = <<>>
    /\ clock = 0
    /\ parked = NoTask

SpecScore == InitScore /\ [][CalculateCompatibilityScore]_vars

----------------------------------------------------------------------------
(* Properties *)

IsPrefix(s, t) == Len(s) <= Len(t) /\ \A i \in 1..Len(s) : s[i] = t[i]

\* What the current run has appended so far.
NewErrors == SubSeq(results.errors, Len(run_start.errors) + 1, Len(results.errors))
NewWarnings ==
    SubSeq(results.warnings, Len(run_start.warnings) + 1, Len(results.warnings))

HowMany(entries, msg) == Cardinality({i \in 1..Len(entries) : entries[i].msg = msg})

\* C1: run_all_tests never raises and always returns the record: no fault
\* ever reaches the caller, a fault is in flight only on its way to the
\* handler at the top, a run that has started can always take its next step,
\* and every finished run has handed a record over.
C1_NeverRaises ==
    /\ pc # "raised"
    /\ (exc # "" => pc = "except")
    /\ (pc # "idle" => ENABLED Next)
    /\ (pc = "idle" => Len(returned) <= MaxRuns /\ (phases # <<>> => returned # <<>>))

\* A run against a type with every method, each of which raises, has returned.
C1_Witness ==
    /\ pc = "idle"
    /\ returned # <<>>
    /\ comp.ctor = {}
    /\ \A m \in DOMAIN comp.attr : comp.attr[m] = "callable"
    /\ \A c \in DOMAIN comp.beh : comp.beh[c] = "raise"

\* C2: the score of the record, and of every record handed to a caller, is
\* at least 0.0 and at most 0.7 in every state.
C2_ScoreInRange ==
    /\ results.compatibility_score >= 0
    /\ results.compatibility_score <= 700
    /\ \A i \in 1..Len(returned) :
          returned[i].compatibility_score >= 0 /\ returned[i].compatibility_score <= 700

\* A finished run left the top score; another left 0 with errors on record.
C2_Witness ==
    /\ pc = "idle"
    /\ Len(returned) = 2
    /\ returned[1].compatibility_score = 700
    /\ results.compatibility_score = 700

\* C3: for all flags, e errors and w warnings the stored score is
\* max(0, 0.7*k/4 - min(0.1*e, 0.3) - min(0.05*w, 0.2)) with k the number of
\* true flags: the error penalty stays 0.3 from e = 3 on, the warning penalty
\* 0.2 from w = 4 on; 4 flags and nothing else give 0.7, 2 flags and 5 errors
\* 0.05, no flag and 10 warnings 0.0.
C3_ScoreFormula ==
    pc = "return" =>
        LET k == CountTrue(Flags(results))
            e == Len(results.errors)
            w == Len(results.warnings)
            score == results.compatibility_score
            error_penalty == IF e >= 3 THEN 300 ELSE 100 * e
            warning_penalty == IF w >= 4 THEN 200 ELSE 50 * w
            raw == 175 * k - error_penalty - warning_penalty
        IN  /\ score = IF raw < 0 THEN 0 ELSE raw
            /\ (k = 4 /\ e = 0 /\ w = 0 => score = 700)
            /\ (k = 2 /\ e = 5 /\ w = 0 => score = 50)
            /\ (k = 0 /\ w = 10 => score = 0)
            /\ Flags(results) = Flags(run_start)
            /\ results.errors = run_start.errors
            /\ results.warnings = run_start.warnings

\* Two flags and five errors were scored 0.05.
C3_Witness ==
    /\ pc = "return"
    /\ CountTrue(Flags(results)) = 2
    /\ Len(results.errors) = 5
    /\ Len(results.warnings) = 0
    /\ results.compatibility_score = 50

\* C4: the streaming probe pulls at most 10 chunks from the stream whatever
\* its length; from a stream of 1000 chunks it pulls exactly 10 and records
\* chunks_received = 10.
C4_AtMostTenChunks ==
    /\ consumed <= 10
    /\ (/\ "streaming" \in Range(probes)
        /\ comp.attr["stream"] = "callable"
        /\ comp.stream.aiter
        /\ comp.stream.len = 1000
        => consumed = 10 /\ results.performance_metrics["chunks_received"] = 10)

Required == Range(REQUIRED_METHODS(comp.strategy))
Optional == Range(OPTIONAL_METHODS(comp.strategy))

\* The entries that exist because a method is not there.
AboutAbsence(e) ==
    \/ e.msg \in {"Missing required method", "ainvoke method not available",
                  "stream method not available", "bind_tools method not available",
                  "with_structured_output method not available",
                  "No async embedding methods available"}
    \/ e.cause = "AttributeError"

EveryMissingRequiredReported ==
    \A m \in Required :
        comp.attr[m] = "absent" =>
            \E i \in 1..Len(NewErrors) :
                NewErrors[i] = Entry("Missing required method", m, "")

NoErrorForMissingOptional ==
    \A i \in 1..Len(results.errors) :
        AboutAbsence(results.errors[i]) => results.errors[i].method \in Required \ Optional

C6_Idempotent ==
    Len(returned) = 2 /\ Deterministic(comp) =>
        /\ returned[1].test_timestamp # returned[2].test_timestamp
        /\ Flags(returned[1]) = Flags(returned[2])
        /\ returned[1].errors = returned[2].errors
        /\ returned[1].warnings = returned[2].warnings

\* C7: the record a run returned (the tester's own record object) keeps the
\* value it was returned with, and a later run's record starts empty: it
\* holds nothing appended or measured by an earlier run.
C7_ReturnedRecordFrozen ==
    /\ (returned # <<>> => results = returned[1])
    /\ (pc # "idle" /\ returned # <<>> =>
            /\ run_start.errors = <<>>
            /\ run_start.warnings = <<>>
            /\ \A k \in MetricKeys : run_start.performance_metrics[k] = NoMetric)

\* C8: the phases of a run start in the fixed order, each at most once; the
\* probes of the functionality phase are attempted in their order, only
\* within that phase, and all of them have settled when a later phase starts.
C8_PhasesSequential ==
    /\ IsPrefix(phases, PhaseOrder)
    /\ IsPrefix(probes, ProbeOrder(comp.strategy))
    /\ (probes # <<>> => "functionality" \in Range(phases))
    /\ ("error_handling" \in Range(phases) =>
            probes \in {<<>>, ProbeOrder(comp.strategy)})
    /\ (pc \in Range(ProbeOrder(comp.strategy)) =>
            phases = SubSeq(PhaseOrder, 1, 3))

\* A run went through all five phases and every probe.
C8_Witness ==
    /\ pc = "return"
    /\ phases = PhaseOrder
    /\ probes = ProbeOrder(comp.strategy)

\* C9: a run that no fault escaped from went through the five phases in
\* order, whatever failed inside them.
C9_FailureDoesNotStopLaterPhases ==
    pc = "return" /\ escapes = 0 => phases = PhaseOrder

\* Instantiation failed, every functional probe failed, and the run still
\* went through all five phases.
C9_Witness ==
    /\ pc = "return"
    /\ phases = PhaseOrder
    /\ comp.strategy = "llm"
    /\ comp.ctor = {1}
    /\ HowMany(NewErrors, "Instantiation failed") = 1
    /\ probes = ProbeOrder("llm")
    /\ \A k \in DOMAIN functionality_results : ~functionality_results[k]

\* C10: a fault that escapes a phase goes to the handler at the top, which
\* appends exactly one "Test execution failed" entry; no later phase starts
\* and the run returns the record.  A run no fault escaped from appends no
\* such entry.
C10_CaughtOnceAtTop ==
    /\ escapes <= 1
    /\ HowMany(NewErrors, "Test execution failed") = IF pc = "except" THEN 0 ELSE escapes
    /\ (escapes = 1 =>
            /\ pc \in {"except", "return", "idle"}
            /\ Len(phases) < Len(PhaseOrder)
            /\ "score" \notin Range(phases))
    /\ (escapes = 1 /\ pc = "idle" => returned # <<>> /\ returned[Len(returned)] = results)

\* A lookup fault escaped the required-method check and the run is returning.
C10_Witness ==
    /\ pc = "return"
    /\ escapes = 1
    /\ phases = <<"instantiation", "required_methods">>
    /\ NewErrors[Len(NewErrors)] = Entry("Test execution failed", "", "lookup fault")

\* The scoring function applied to a record's flags and counts.
ScoreOf(r) == calculate_compatibility_score(r).compatibility_score

C12_AppendOnly ==
    [][/\ IsPrefix(results.errors, results'.errors)
       /\ IsPrefix(results.warnings, results'.warnings)]_vars

\* A second run has appended errors and warnings after those of the first.
C12_Witness ==
    /\ pc = "return"
    /\ Len(returned) = 1
    /\ returned[1].errors # <<>>
    /\ returned[1].warnings # <<>>
    /\ IsPrefix(returned[1].errors, results.errors)
    /\ IsPrefix(returned[1].warnings, results.warnings)
    /\ Len(results.errors) > Len(returned[1].errors)
    /\ Len(results.warnings) > Len(returned[1].warnings)

\* C13: the four capability flags are monotonic within a run: no step of a
\* run, whether a probe that passes, a probe that fails, a phase or the
\* handler at the top, takes a flag that is true to false.
C13_FlagsMonotonic ==
    [][pc # "idle" => \A i \in 1..4 : Flags(results)[i] => Flags(results')[i]]_vars

\* In a first run the async probe set async_support, the streaming probe
\* after it failed on a stream that raised, and the flag is still true when
\* the run returns.
C13_Witness ==
    /\ pc = "return"
    /\ returned = <<>>
    /\ comp.strategy = "llm"
    /\ probes = ProbeOrder("llm")
    /\ functionality_results["ainvoke"]
    /\ ~functionality_results["streaming"]
    /\ HowMany(NewErrors, "Streaming test failed") = 1
    /\ results.async_support
    /\ ~results.streaming_support
    /\ phases = PhaseOrder

\* The phases other than the functionality phase, by the position of the run.
OtherPhases == {"instantiation", "required_methods", "error_handling", "score"}

\* C14: only the functionality phase changes the four capability flags: the
\* steps of the instantiation phase, of the required-method check, of the
\* error-handling phase and of the score computation leave all four as they
\* found them.
C14_OnlyFunctionalitySetsFlags ==
    [][(pc \in OtherPhases) => (Flags(results') = Flags(results))]_vars

\* A first run has been through all five phases, and flags are set that were
\* not when it started.
C14_Witness ==
    /\ pc = "return"
    /\ returned = <<>>
    /\ phases = PhaseOrder
    /\ Flags(run_start) = <<FALSE, FALSE, FALSE, FALSE>>
    /\ CountTrue(Flags(results)) >= 2
    /\ error_handling_results = EmptyMap
    /\ Len(NewWarnings) > 0

\* C15: the error-handling phase changes the record by nothing but at most one
\* appended warning, "Error handling test failed": errors, the four flags,
\* performance_metrics and compatibility_score are as the phase found them,
\* whatever the scenarios gave.
C15_ErrorHandlingFrame ==
    [][pc = "error_handling" =>
          \/ results' = results
          \/ results' = AddWarning(results, "Error handling test failed", "", "fault")]_vars

\* The phase has run against a component that raised on some bad inputs and
\* took others: the outcomes are in the mapping, and the run has no error and
\* no warning on record.
C15_Witness ==
    /\ pc = "score"
    /\ \E k \in DOMAIN error_handling_results : error_handling_results[k]
    /\ \E k \in DOMAIN error_handling_results : ~error_handling_results[k]
    /\ NewErrors = <<>>
    /\ NewWarnings = <<>>
    /\ results.compatibility_score = run_start.compatibility_score

\* C16: two testers run at once share nothing: however the steps of the two
\* run_all_tests tasks interleave, the record each one returns is the record
\* its tester produces when it runs alone.
C16_NoSharedState ==
    /\ (returned # <<>> => returned[1] = run_all_tests(comp, run_start))
    /\ (parked.returned # <<>> =>
            parked.returned[1] = run_all_tests(parked.comp, parked.run_start))

\* Both tasks have returned after the event loop switched between them in
\* the middle of their runs, and the two records hold different errors.
C16_Witness ==
    /\ pc = "idle"
    /\ parked.pc = "idle"
    /\ parked.overlap
    /\ returned # <<>>
    /\ parked.returned # <<>>
    /\ returned[1].errors # <<>>
    /\ parked.returned[1].errors # <<>>
    /\ returned[1].errors # parked.returned[1].errors

\* What the required-method check owes a name, by what the type has for it.
Lacking(m) == comp.attr[m] = "absent"
NotCallable(m) == comp.attr[m] = "noncallable"
Failing(m) == Lacking(m) \/ NotCallable(m)

Verdict(m) ==
    IF Lacking(m)
    THEN Entry("Missing required method", m, "")
    ELSE Entry("Method is not callable", m, "")

\* One error per failing name among names, in the order of the names.
ExpectedErrors(names) ==
    LET failing == SelectSeq(names, Failing)
    IN  [i \in 1..Len(failing) |-> Verdict(failing[i])]

\* One entry per name: true for the names that are there and callable.
ExpectedMapping(names) == [m \in Range(names) |-> ~Failing(m)]

\* The names the check gets to: those before the first one whose lookup raises.
Reached ==
    LET names == REQUIRED_METHODS(comp.strategy)
        raising == {i \in 1..Len(names) : comp.attr[names[i]] = "raises"}
        stop == IF raising = {} THEN Len(names) + 1
                ELSE CHOOSE i \in raising : \A j \in raising : i <= j
    IN  SubSeq(names, 1, stop - 1)

\* C17 as claimed: the required-method check returns a mapping with one entry
\* per name in REQUIRED_METHODS, false for a name the type lacks or has as a
\* non-callable and true otherwise, appends "Missing required method" for
\* each lacking name and "Method is not callable" for each non-callable one,
\* and changes nothing else in the record.
C17_RequiredCheck ==
    [][pc = "required_methods" =>
          /\ pc' = "functionality"
          /\ method_results' = ExpectedMapping(REQUIRED_METHODS(comp.strategy))
          /\ results' = [results EXCEPT
                            !.errors = @ \o ExpectedErrors(REQUIRED_METHODS(comp.strategy))]
      ]_vars

\* C17 as amended: the check goes through the names up to the first one
\* whose lookup raises; it appends one error per failing name among them and
\* changes nothing else in the record.  When no lookup raises it returns the
\* mapping with one entry per name in REQUIRED_METHODS; otherwise the fault
\* leaves the check and no mapping is returned.
C17_RequiredCheckUnlessAborted ==
    [][pc = "required_methods" =>
          /\ results' = [results EXCEPT !.errors = @ \o ExpectedErrors(Reached)]
          /\ IF Reached = REQUIRED_METHODS(comp.strategy)
             THEN /\ pc' = "functionality"
                  /\ method_results' = ExpectedMapping(Reached)
             ELSE pc' = "except"
      ]_vars

\* The check has returned for a type that lacks required names and has one
\* as a non-callable: every name is in the mapping, all false, and both
\* messages are on record.
C17_Witness ==
    /\ pc = "functionality"
    /\ DOMAIN method_results = Required
    /\ \A m \in Required : ~method_results[m]
    /\ HowMany(NewErrors, "Method is not callable") = 1
    /\ HowMany(NewErrors, "Missing required method") = Cardinality(Required) - 1

\* C18: in the text-generation and embedding strategies the probes of the
\* functionality phase are independent: when the phase has constructed its
\* component, every probe has been attempted exactly once, in the fixed
\* order, by the time the phase ends, whatever the earlier probes did, and
\* the mapping has one entry per probe.  (The construction of the phase is
\* the second of the run.)
C18_ProbesIndependent ==
    pc = "error_handling" /\ comp.strategy \in {"llm", "embeddings"} =>
        IF construct(comp, 2)
        THEN /\ probes = ProbeOrder(comp.strategy)
             /\ DOMAIN functionality_results = Range(ProbeOrder(comp.strategy))
        ELSE /\ probes = <<>>
             /\ functionality_results = EmptyMap

\* The first probe raised, every probe after it was still attempted, and all
\* of them failed: five entries, all false.
C18_Witness ==
    /\ pc = "error_handling"
    /\ comp.strategy = "llm"
    /\ probes = ProbeOrder("llm")
    /\ DOMAIN functionality_results = Range(ProbeOrder("llm"))
    /\ \A k \in DOMAIN functionality_results : ~functionality_results[k]
    /\ HowMany(NewErrors, "Invoke test failed") = 1
    /\ HowMany(NewErrors, "Structured output test failed") = 1

\* What instance.invoke does with the probe's message.
InvokeRaises == ~callable(comp, "invoke") \/ comp.beh["invoke"] = "raise"
InvokeGives(v) == ~InvokeRaises /\ comp.beh["invoke"] = v

\* The record with one entry more in `field` and otherwise equal to r, the
\* entry carrying the message msg.
OneMore(r2, r, field, msg) ==
    /\ Len(r2[field]) = Len(r[field]) + 1
    /\ r2 = [r EXCEPT ![field] = Append(r[field], r2[field][Len(r2[field])])]
    /\ r2[field][Len(r2[field])].msg = msg

\* The three outcomes of the invoke probe, as a step from record r to r2
\* returning passed.
InvokePasses(r, r2, passed) ==
    /\ InvokeGives("ok")
    /\ passed
    /\ r2 = SetMetric(r, "invoke_latency", CallTicks)

InvokeWarns(r, r2, passed) ==
    /\ InvokeGives("falsy")
    /\ ~passed
    /\ OneMore(r2, SetMetric(r, "invoke_latency", CallTicks), "warnings",
               "Invoke returned empty or invalid response")

InvokeFails(r, r2, passed) ==
    /\ InvokeRaises
    /\ ~passed
    /\ OneMore(r2, r, "errors", "Invoke test failed")
    /\ r2.performance_metrics["invoke_latency"] = NoMetric

\* The outcome for a response that raises when it is examined.
InvokeFailsLate(r, r2, passed) ==
    /\ InvokeGives("unreadable")
    /\ ~passed
    /\ OneMore(r2, SetMetric(r, "invoke_latency", CallTicks), "errors",
               "Invoke test failed")

\* C19 as claimed: the invoke probe has exactly three outcomes: a non-empty
\* response passes and appends nothing; an empty or falsy response fails and
\* appends one warning and no error; a raised fault fails and appends one
\* error and no warning; invoke_latency is recorded in the first two and not
\* in the third.
C19_InvokeThreeOutcomes ==
    [][pc = "invoke" =>
          \/ InvokePasses(results, results', functionality_results'["invoke"])
          \/ InvokeWarns(results, results', functionality_results'["invoke"])
          \/ InvokeFails(results, results', functionality_results'["invoke"])
      ]_vars

\* C19 as amended: the invoke probe has four outcomes: the three claimed,
\* where the raised fault is one raised by invoke itself, and a fourth for a
\* response that raises when the probe examines it: the probe fails, appends
\* one error and no warning, and invoke_latency is recorded.
C19_InvokeFourOutcomes ==
    [][pc = "invoke" =>
          \/ InvokePasses(results, results', functionality_results'["invoke"])
          \/ InvokeWarns(results, results', functionality_results'["invoke"])
          \/ InvokeFails(results, results', functionality_results'["invoke"])
          \/ InvokeFailsLate(results, results', functionality_results'["invoke"])
      ]_vars

\* The probe has run in a first run against a component whose response
\* raised when examined: one error, no warning, and a latency on record.
C19_Witness ==
    /\ pc = "ainvoke"
    /\ returned = <<>>
    /\ comp.beh["invoke"] = "unreadable"
    /\ ~functionality_results["invoke"]
    /\ NewErrors = <<Entry("Invoke test failed", "invoke", "fault")>>
    /\ NewWarnings = <<>>
    /\ results.performance_metrics["invoke_latency"] = CallTicks

\* C20: in the text-generation strategy async_support is true only when the
\* async invoke probe has passed: in a tester's first run the flag is false
\* before the probe, and false after it when ainvoke is absent, raises or
\* returns an empty or falsy response.
C20_AsyncOnlyOnSuccess ==
    comp.strategy = "llm" /\ returned = <<>> /\ results.async_support =>
        /\ "ainvoke" \in DOMAIN functionality_results
        /\ functionality_results["ainvoke"]

\* The current run has been through the probe called name (the component is
\* still as the probe met it).
After(name) == pc # "idle" /\ name \in Range(probes)

\* What the stream of the component gives the streaming probe, read off the
\* component: whether the probe gets to iterate, whether it meets the fault
\* of the stream before it stops pulling, and how many chunks it gets.
StreamIterates == callable(comp, "stream") /\ comp.stream.aiter

StreamFaults ==
    \/ comp.attr["stream"] \in {"noncallable", "raises"}
    \/ callable(comp, "stream") /\ ~comp.stream.aiter
    \/ /\ StreamIterates
       /\ comp.stream.end = "raise"
       /\ comp.stream.len # Unbounded
       /\ comp.stream.len <= ChunkLimit

StreamReceived ==
    IF comp.stream.len = Unbounded \/ comp.stream.len > ChunkLimit
    THEN ChunkLimit + 1
    ELSE comp.stream.len

StreamingMessages == {"Streaming test failed", "stream method not available",
                      "Streaming produced no chunks"}

\* The entries of the streaming probe among entries, as their messages.
FromStreaming(entries) ==
    [i \in 1..Len(SelectSeq(entries, LAMBDA e : e.msg \in StreamingMessages)) |->
        SelectSeq(entries, LAMBDA e : e.msg \in StreamingMessages)[i].msg]

StreamingRecorded ==
    /\ results.performance_metrics["streaming_latency"] # NoMetric
    /\ results.performance_metrics["chunks_received"] # NoMetric

StreamingNothingRecorded ==
    /\ results.performance_metrics["streaming_latency"] = NoMetric
    /\ results.performance_metrics["chunks_received"] = NoMetric

\* C21: after the streaming probe, streaming_support is true and both
\* streaming_latency and chunks_received are recorded exactly when the probe
\* received at least one chunk from a stream that did not raise on it; a
\* stream of zero chunks leaves one warning, the flag false and no metric; a
\* stream that raises leaves one error, the flag false and no metric, chunks
\* received before the fault or not.
C21_StreamingOutcomes ==
    comp.strategy = "llm" /\ After("streaming") /\ comp.attr["stream"] # "absent" =>
        /\ results.streaming_support <=> (~StreamFaults /\ StreamReceived >= 1)
        /\ results.streaming_support <=> StreamingRecorded
        /\ ~results.streaming_support <=> StreamingNothingRecorded
        /\ (results.streaming_support =>
               /\ functionality_results["streaming"]
               /\ results.performance_metrics["chunks_received"] = StreamReceived
               /\ FromStreaming(NewErrors) = <<>>
               /\ FromStreaming(NewWarnings) = <<>>)
        /\ (~StreamFaults /\ StreamReceived = 0 =>
               /\ ~functionality_results["streaming"]
               /\ FromStreaming(NewWarnings) = <<"Streaming produced no chunks">>
               /\ FromStreaming(NewErrors) = <<>>)
        /\ (StreamFaults =>
               /\ ~functionality_results["streaming"]
               /\ FromStreaming(NewErrors) = <<"Streaming test failed">>
               /\ FromStreaming(NewWarnings) = <<>>)

\* The stream gave one chunk and then raised: one error, the flag false and
\* no metric on record.
C21_Witness ==
    /\ comp.strategy = "llm"
    /\ After("streaming")
    /\ StreamIterates
    /\ comp.stream.len = 1
    /\ comp.stream.end = "raise"
    /\ consumed = 1
    /\ ~results.streaming_support
    /\ StreamingNothingRecorded
    /\ FromStreaming(NewErrors) = <<"Streaming test failed">>

\* The messages of entries that are among msgs, in order.
MessagesAmong(entries, msgs) ==
    LET mine == SelectSeq(entries, LAMBDA e : e.msg \in msgs)
    IN  [i \in 1..Len(mine) |-> mine[i].msg]

BindToolsMessages == {"bind_tools test failed", "bind_tools method not available",
                      "Tool binding works but execution failed"}

StructuredMessages == {"Structured output test failed",
                       "with_structured_output method not available",
                       "Structured output binding works but execution failed"}

\* What the bind call at `site` of method m does, read off the component.
BindSucceeds(m, site) == callable(comp, m) /\ comp.beh[site] = "ok"
BindRaises(m, site) ==
    \/ comp.attr[m] \in {"noncallable", "raises"}
    \/ callable(comp, m) /\ comp.beh[site] = "raise"

\* C22: for tool binding and structured output alike: when the bind call
\* succeeds and invoking what it returned raises, the probe leaves exactly
\* one warning and no error, the flag true, and reports success; when the
\* bind call itself raises, the probe leaves one error, no warning and the
\* flag false.
C22_DowngradePolicy ==
    /\ comp.strategy = "llm" /\ After("bind_tools") =>
          /\ (BindSucceeds("bind_tools", "bind_tools") /\ comp.beh["bound_invoke"] = "raise" =>
                 /\ MessagesAmong(NewWarnings, BindToolsMessages)
                       = <<"Tool binding works but execution failed">>
                 /\ MessagesAmong(NewErrors, BindToolsMessages) = <<>>
                 /\ results.bind_tools_support
                 /\ functionality_results["bind_tools"])
          /\ (BindRaises("bind_tools", "bind_tools") =>
                 /\ MessagesAmong(NewErrors, BindToolsMessages) = <<"bind_tools test failed">>
                 /\ MessagesAmong(NewWarnings, BindToolsMessages) = <<>>
                 /\ ~results.bind_tools_support
                 /\ ~functionality_results["bind_tools"])
    /\ comp.strategy = "llm" /\ After("structured_output") =>
          /\ (/\ BindSucceeds("with_structured_output", "with_structured_output")
              /\ comp.beh["structured_invoke"] = "raise"
              => /\ MessagesAmong(NewWarnings, StructuredMessages)
                       = <<"Structured output binding works but execution failed">>
                 /\ MessagesAmong(NewErrors, StructuredMessages) = <<>>
                 /\ results.structured_output_support
                 /\ functionality_results["structured_output"])
          /\ (BindRaises("with_structured_output", "with_structured_output") =>
                 /\ MessagesAmong(NewErrors, StructuredMessages)
                       = <<"Structured output test failed">>
                 /\ MessagesAmong(NewWarnings, StructuredMessages) = <<>>
                 /\ ~results.structured_output_support
                 /\ ~functionality_results["structured_output"])

\* Tool binding succeeded, the bound model raised when invoked: the probe
\* reported success with the flag set and one warning, and no error is on
\* record at all.
C22_Witness ==
    /\ comp.strategy = "llm"
    /\ After("bind_tools")
    /\ returned = <<>>
    /\ comp.beh["bind_tools"] = "ok"
    /\ comp.beh["bound_invoke"] = "raise"
    /\ functionality_results["bind_tools"]
    /\ results.bind_tools_support
    /\ MessagesAmong(NewWarnings, BindToolsMessages)
          = <<"Tool binding works but execution failed">>
    /\ NewErrors = <<>>

\* C23: in the functional probes of the text-generation strategy a missing
\* bind_tools leaves one error and no warning, a missing
\* with_structured_output one warning and no error; in both cases the probe
\* goes no further (it leaves no other entry) and the flag is false.
C23_AbsencePolicy ==
    /\ comp.strategy = "llm" /\ After("bind_tools") /\ comp.attr["bind_tools"] = "absent" =>
          /\ MessagesAmong(NewErrors, BindToolsMessages)
                = <<"bind_tools method not available">>
          /\ MessagesAmong(NewWarnings, BindToolsMessages) = <<>>
          /\ ~results.bind_tools_support
          /\ ~functionality_results["bind_tools"]
    /\ (/\ comp.strategy = "llm"
        /\ After("structured_output")
        /\ comp.attr["with_structured_output"] = "absent"
        => /\ MessagesAmong(NewWarnings, StructuredMessages)
                 = <<"with_structured_output method not available">>
           /\ MessagesAmong(NewErrors, StructuredMessages) = <<>>
           /\ ~results.structured_output_support
           /\ ~functionality_results["structured_output"])

\* A run against a type with no method at all is past both probes: the
\* missing bind_tools is among the errors, the missing with_structured_output
\* among the warnings, and no flag is set.
C23_Witness ==
    /\ comp.strategy = "llm"
    /\ After("structured_output")
    /\ \A m \in DOMAIN comp.attr : comp.attr[m] = "absent"
    /\ HowMany(NewErrors, "bind_tools method not available") = 1
    /\ HowMany(NewWarnings, "with_structured_output method not available") = 1
    /\ HowMany(NewWarnings, "bind_tools method not available") = 0
    /\ HowMany(NewErrors, "with_structured_output method not available") = 0
    /\ CountTrue(Flags(results)) = 0

\* The scenarios of each strategy and the method each one calls.
ScenarioMethod ==
    [handles_empty_input |-> "invoke", handles_long_input |-> "invoke",
     handles_empty_tools |-> "bind_tools",
     handles_invalid_message_format |-> "invoke", handles_empty_messages |-> "invoke",
     handles_malformed_messages |-> "invoke",
     handles_empty_documents |-> "embed_documents", handles_empty_query |-> "embed_query",
     handles_large_input |-> "embed_query"]

ScenarioKeys(s) ==
    CASE s = "llm" -> {"handles_empty_input", "handles_long_input", "handles_empty_tools"}
      [] s = "chat" -> {"handles_invalid_message_format", "handles_empty_messages",
                        "handles_malformed_messages"}
      [] s = "embeddings" -> {"handles_empty_documents", "handles_empty_query",
                              "handles_large_input"}

\* C24: when the error-handling phase has constructed its component, the
\* mapping it returns has one entry per scenario of the strategy (for text
\* generation: empty input, long input and empty tool list), whatever the
\* earlier scenarios did, and the entry of a scenario whose call raises (as
\* any call to a method that is missing or not callable does) is false.
C24_ErrorScenarios ==
    pc = "score" /\ construct(comp, ctor_calls) =>
        /\ DOMAIN error_handling_results = ScenarioKeys(comp.strategy)
        /\ \A k \in DOMAIN error_handling_results :
              ~callable(comp, ScenarioMethod[k]) => ~error_handling_results[k]

\* The scenarios the phase gets to call: the empty tool list is passed only
\* to a component that has bind_tools.
ScenariosRun ==
    IF comp.strategy = "llm" /\ comp.attr["bind_tools"] = "absent"
    THEN ScenarioKeys("llm") \ {"handles_empty_tools"}
    ELSE ScenarioKeys(comp.strategy)

\* C24 as amended: when the error-handling phase has constructed its
\* component, the mapping it returns has one entry per scenario it called,
\* whatever the earlier scenarios did, and the entry of a scenario whose call
\* raises is false; the text-generation mapping has the entries for empty
\* input and long input, and the entry for the empty tool list exactly when
\* the component has bind_tools.
C24_ErrorScenariosRun ==
    pc = "score" /\ construct(comp, ctor_calls) =>
        /\ DOMAIN error_handling_results = ScenariosRun
        /\ \A k \in DOMAIN error_handling_results :
              ~callable(comp, ScenarioMethod[k]) => ~error_handling_results[k]

\* A component with no bind_tools raised on the empty input and took the
\* long one: the first entry is false, the second true, and there is no
\* third.
C24_Witness ==
    /\ pc = "score"
    /\ comp.strategy = "llm"
    /\ comp.attr["bind_tools"] = "absent"
    /\ DOMAIN error_handling_results = {"handles_empty_input", "handles_long_input"}
    /\ ~error_handling_results["handles_empty_input"]
    /\ error_handling_results["handles_long_input"]

\* A component that can be constructed, has every method and answers every
\* call with a valid response.
SupportsAll(c) ==
    /\ c.ctor = {}
    /\ \A m \in DOMAIN c.attr : c.attr[m] = "callable"
    /\ \A site \in DOMAIN c.beh : c.beh[site] = "ok"

\* C25: the functionality phase of the chat strategy runs the text-generation
\* probes after its three message probes: for a chat component that supports
\* everything, the phase ends with all four capability flags true and with
\* no error appended by the run.
C25_ChatFoldsInBaseProbes ==
    comp.strategy = "chat" /\ pc = "error_handling" /\ SupportsAll(comp) =>
        /\ Flags(results) = <<TRUE, TRUE, TRUE, TRUE>>
        /\ NewErrors = <<>>

\* The messages each chat message probe can leave.
ChatMessages ==
    [message_handling |-> {"Message handling test failed",
                           "Message handling returned invalid response format"},
     system_message |-> {"System message support test failed",
                         "System message support test returned no response"},
     conversation |-> {"Conversation handling test failed",
                       "Conversation handling test returned no response"}]

\* What instance.invoke does with the messages of probe p.
ChatRaises(p) == ~callable(comp, "invoke") \/ comp.beh[p] = "raise"
ChatFalsy(p) == callable(comp, "invoke") /\ comp.beh[p] = "falsy"

\* The policy for probe p: a fault leaves one error and no warning, a falsy
\* response one warning and no error.
FollowsPolicy(p) ==
    /\ (ChatRaises(p) =>
           /\ Len(MessagesAmong(NewErrors, ChatMessages[p])) = 1
           /\ Len(MessagesAmong(NewWarnings, ChatMessages[p])) = 0)
    /\ (ChatFalsy(p) =>
           /\ Len(MessagesAmong(NewWarnings, ChatMessages[p])) = 1
           /\ Len(MessagesAmong(NewErrors, ChatMessages[p])) = 0)

\* C26: each of the three chat message probes follows the policy
\* warning-on-falsy, error-on-raise.
C26_ChatProbePolicy ==
    comp.strategy = "chat" =>
        \A p \in {"message_handling", "system_message", "conversation"} :
            After(p) => FollowsPolicy(p)

\* What an async variant of the embedding component would do when called.
AsyncValid(m) == callable(comp, m) /\ comp.beh[m] = "ok"
AsyncRaises(m) ==
    \/ comp.attr[m] \in {"noncallable", "raises"}
    \/ callable(comp, m) /\ comp.beh[m] = "raise"

\* C27: in the embedding strategy async_support is true after the async
\* probe whenever aembed_query or aembed_documents would return a valid
\* result, whatever the other variant does (absent, invalid result, fault).
C27_EitherAsyncVariant ==
    /\ comp.strategy = "embeddings"
    /\ After("async_embeddings")
    /\ AsyncValid("aembed_query") \/ AsyncValid("aembed_documents")
    => results.async_support

\* What embed_query gives for the three dimension-consistency queries.
DimensionQueries == 1..3
QueriesReturn ==
    /\ callable(comp, "embed_query")
    /\ \A q \in DimensionQueries : comp.dims[q] # QueryRaises
IsVector(q) == comp.dims[q] > 0
AllSameLength ==
    /\ \A q \in DimensionQueries : IsVector(q)
    /\ \A p, q \in DimensionQueries : comp.dims[p] = comp.dims[q]
LengthsDiffer == \E p, q \in DimensionQueries :
    IsVector(p) /\ IsVector(q) /\ comp.dims[p] # comp.dims[q]
InconsistentErrors ==
    SelectSeq(NewErrors, LAMBDA e : e.msg = "Inconsistent embedding dimensions")

\* C28: the dimension-consistency probe passes exactly when the three
\* queries all give vectors of one length; when lengths differ it fails with
\* one error listing the observed lengths; an empty or non-vector embedding
\* never lets the probe pass.
C28_DimensionConsistency ==
    comp.strategy = "embeddings" /\ After("dimension_consistency") /\ QueriesReturn =>
        /\ functionality_results["dimension_consistency"] <=> AllSameLength
        /\ (LengthsDiffer =>
               /\ ~functionality_results["dimension_consistency"]
               /\ Len(InconsistentErrors) = 1
               /\ \A q \in DimensionQueries :
                      IsVector(q) => comp.dims[q] \in Range(InconsistentErrors[1].dims))
        /\ ((\E q \in DimensionQueries : ~IsVector(q)) =>
               ~functionality_results["dimension_consistency"])

\* The phases of a run that construct the component, and how many of them
\* the current run has been through.
ConstructingPhases == {"instantiation", "functionality", "error_handling"}
Constructions == Cardinality({i \in 1..Len(phases) : phases[i] \in ConstructingPhases})
Done(phase) == phase \in Range(phases)
AnyFlag == \E i \in 1..4 : Flags(results)[i]

NeverConstructs ==
    /\ comp.strategy \in {"llm", "embeddings"}
    /\ comp.ctor = Attempts
FirstRunEnded == pc = "return" /\ returned = <<>>
NothingProbed ==
    /\ probes = <<>>
    /\ functionality_results = EmptyMap
    /\ error_handling_results = EmptyMap
    /\ Flags(results) = <<FALSE, FALSE, FALSE, FALSE>>
    /\ \A k \in MetricKeys : results.performance_metrics[k] = NoMetric
ThreeFailuresRecorded ==
    /\ HowMany(results.errors, "Instantiation failed") = 1
    /\ HowMany(results.errors, FunctionalityFailed(comp.strategy)) = 1
    /\ HowMany(results.warnings, "Error handling test failed") = 1
    /\ Len(results.warnings) = 1
    /\ \A i \in 1..Len(results.errors) :
           results.errors[i].msg \in {"Instantiation failed",
                                      FunctionalityFailed(comp.strategy),
                                      "Missing required method",
                                      "Method is not callable"}

\* C30: for a component whose constructor always raises, a first run under
\* the text-generation or embedding strategy runs no probe, leaves the flags
\* false and the metrics empty, records one instantiation error, one
\* functionality-phase error and one error-handling warning, and scores 0.0.
C30_NeverConstructs ==
    NeverConstructs /\ FirstRunEnded =>
        /\ NothingProbed
        /\ ThreeFailuresRecorded
        /\ results.compatibility_score = 0

\* C30 as amended: the same when no fault escapes the required-method check;
\* when one does, the run records the instantiation error and the top-level
\* "Test execution failed" error only, and the score stays at its initial 0.0.
C30_NeverConstructsUnlessAborted ==
    NeverConstructs /\ FirstRunEnded =>
        /\ NothingProbed
        /\ results.compatibility_score = 0
        /\ HowMany(results.errors, "Instantiation failed") = 1
        /\ IF escapes = 0
           THEN ThreeFailuresRecorded
           ELSE /\ HowMany(results.errors, "Test execution failed") = 1
                /\ HowMany(results.errors, FunctionalityFailed(comp.strategy)) = 0
                /\ results.warnings = <<>>

C30_Witness ==
    /\ NeverConstructs
    /\ FirstRunEnded
    /\ escapes = 0
    /\ comp.strategy = "embeddings"
    /\ \A m \in DOMAIN comp.attr : comp.attr[m] = "callable"
    /\ NothingProbed
    /\ Len(results.errors) = 2
    /\ Len(results.warnings) = 1
    /\ results.compatibility_score = 0

====
